---- MODULE Spec2Model ----
(***************************************************************************)
(* Model of scripts/asr_language_modeling/ngram_lm/ngram_merge.py: the     *)
(* n-gram merge pipeline (main), its cache-gated stages, the naming of the *)
(* merged model, the symbol table writer and the streaming handoff of      *)
(* farcompile.                                                             *)
(***************************************************************************)
EXTENDS Integers, Sequences, FiniteSets, TLC

(***************************************************************************)
(* Bounds of the model.                                                    *)
(***************************************************************************)
\* number of runs of main that a behaviour holds
MaxRuns == 2
\* number of external commands that exit non-zero over a whole behaviour
MaxFail == 1
\* largest vocabulary size of a tokenizer
MaxVocab == 12
\* largest number of lines of a test corpus
MaxLines == 3
\* number of lines the stdin pipe of the subprocess holds
PipeCap == 2
\* number of times an input file is rewritten between runs
MaxEdits == 1
\* largest number of characters the scorer prints on stdout
MaxOut == 8

VARIABLES
    pc,               \* position of the control thread in main
    run,              \* number of runs of main started so far
    force,            \* args.force of the current run
    test_file,        \* whether --test_file was supplied
    nemo_model_file,  \* whether --nemo_model_file was supplied
    symbols,          \* whether --symbols was supplied
    fs,               \* the file system: output path -> Absent or a file
    log,              \* the stages the current run went through, in order
    ranOk,            \* stages that skipped or whose command exited 0 so far
    fails,            \* external commands that exited non-zero so far
    emitted,          \* what the last piped-or-inherited subprocess printed
    report,           \* the failure report of the run (assertion message)
    inputs,           \* the version of the content of each input file
    nonzero,          \* some external command so far exited non-zero
    margs,            \* merge: the arguments of two calls
    mpaths,           \* merge: the (mod_c, arpa_c) each call returned
    sym_pc,           \* make_symbol_list: position in the function
    vocabulary,       \* make_symbol_list: asr_model.decoder.vocabulary
    sym_force,        \* make_symbol_list: its force argument
    sym_file,         \* make_symbol_list: the file at the symbols path
    sym_i,            \* make_symbol_list: lines written so far
    far_pc,           \* farcompile: position of the orchestrator
    far_force,        \* farcompile: its force argument
    far_file,         \* farcompile: whether test_far is a file
    source,           \* farcompile: the lines of text_file
    far_n,            \* farcompile: lines written to ps.stdin so far
    pipe,             \* farcompile: lines in the stdin pipe, oldest first
    stdin_closed,     \* farcompile: ps.stdin has been closed
    child,            \* farcompile: the subprocess: none, running, exited
    received,         \* farcompile: lines the subprocess has read
    child_eof,        \* farcompile: the subprocess has read end-of-input
    returncode,       \* farcompile: ps.returncode
    lay_pc,           \* file layout: position in main
    lay_args,         \* file layout: the path arguments of main
    written,          \* file layout: (stage, path) of every file written
    ppl_pc,           \* perplexity: position in the function
    stdout,           \* perplexity: what the scorer printed on stdout
    perplexity_out    \* perplexity: the value returned

pipeVars == <<pc, run, force, test_file, nemo_model_file, symbols, fs, log,
              ranOk, fails, emitted, report, inputs, nonzero>>
nameVars == <<margs, mpaths>>
symVars == <<sym_pc, vocabulary, sym_force, sym_file, sym_i>>
farVars == <<far_pc, far_force, far_file, source, far_n, pipe, stdin_closed,
             child, received, child_eof, returncode>>
layVars == <<lay_pc, lay_args, written>>
pplVars == <<ppl_pc, stdout, perplexity_out>>
\* what the pipeline leaves alone
offPipe == <<nameVars, symVars, farVars, layVars, pplVars>>
\* what a call of merge leaves alone
offNames == <<pipeVars, symVars, farVars, layVars, pplVars>>
\* what a call of make_symbol_list leaves alone
offSym == <<pipeVars, nameVars, farVars, layVars, pplVars>>
\* what a call of farcompile leaves alone
offFar == <<pipeVars, nameVars, symVars, layVars, pplVars>>
\* what the computation of the output paths leaves alone
offLay == <<pipeVars, nameVars, symVars, farVars, pplVars>>
\* what a call of perplexity leaves alone
offPpl == <<pipeVars, nameVars, symVars, farVars, layVars>>
vars == <<pipeVars, nameVars, symVars, farVars, layVars, pplVars>>

(***************************************************************************)
(* State of the pipeline.                                                  *)
(***************************************************************************)
Absent == [exists |-> FALSE, ok |-> FALSE, fresh |-> FALSE, src |-> {}]
None == "None"

\* the files main is given: --arpa_a, --arpa_b, --test_file,
\* --nemo_model_file
InputNames == {"arpa_a", "arpa_b", "test_file", "nemo_model_file"}

\* what a content is made from: the (input, version) pairs that went into it
Sources == (InputNames \X (0..MaxEdits)) \cup {<<"user_syms", 0>>}

\* A file: ok = the complete output of a command that exited 0;
\* fresh = written during the current run; src = what its content was
\* computed from.
File == [exists : {TRUE}, ok : BOOLEAN, fresh : BOOLEAN, src : SUBSET Sources]

\* the table a user hands over with --symbols
UserTable == [exists |-> TRUE, ok |-> TRUE, fresh |-> FALSE,
              src |-> {<<"user_syms", 0>>}]

\* arpa_a + ".mod", arpa_b + ".mod", arpa_c + ".mod", the derived .syms path,
\* the --symbols path, test_far, arpa_c, arpa_c + ".kenlm"
Paths == {"mod_a", "mod_b", "mod_c", "syms", "user_syms", "test_far",
          "arpa_c", "ngram_kenlm"}

FileStages == {"arpa2mod_a", "arpa2mod_b", "ngrammerge", "make_symbol_list",
               "farcompile", "make_arpa", "make_kenlm"}

Stages == FileStages \cup {"perplexity"}

\* the output path each file-producing stage tests and writes
Out(s) ==
    CASE s = "arpa2mod_a" -> "mod_a"
      [] s = "arpa2mod_b" -> "mod_b"
      [] s = "ngrammerge" -> "mod_c"
      [] s = "make_symbol_list" -> "syms"
      [] s = "farcompile" -> "test_far"
      [] s = "make_arpa" -> "arpa_c"
      [] s = "make_kenlm" -> "ngram_kenlm"

\* sh_args[0] of each stage's command
Cmd(s) ==
    CASE s = "arpa2mod_a" -> "ngramread"
      [] s = "arpa2mod_b" -> "ngramread"
      [] s = "ngrammerge" -> "ngrammerge"
      [] s = "make_symbol_list" -> "restore_from"
      [] s = "farcompile" -> "farcompilestrings"
      [] s = "perplexity" -> "ngramperplexity"
      [] s = "make_arpa" -> "ngramprint"
      [] s = "make_kenlm" -> "kenlm_bin_path"

ExitCodes == {0, 1}
OutTexts == {"", "out"}
ErrTexts == {"", "err"}
NoReport == [stage |-> None, cmd |-> None, stdout |-> None, stderr |-> None]
Quiet == [out |-> "", err |-> ""]

IsFile(path) == fs[path].exists

\* os.path.isfile(path) and not force
SkipNoForce(path, f) == IsFile(path)
SkipNever(path, f) == FALSE
Skip(path, f) == IsFile(path) /\ ~f

Entry(s, launched, rc) == [stage |-> s, launched |-> launched, rc |-> rc]

AfterRunRetry(rc, next) == IF rc # 0 THEN "arpa2mod_a" ELSE next
\* subprocess.run(...) without check=True: the CompletedProcess is returned
\* whatever its returncode, and the caller goes on
AfterRun(rc, next) == next

\* assert exit_code == 0
AfterAssert(rc, next) == IF rc = 0 THEN next ELSE "aborted"

\* Popen.communicate(): the text of a stream opened with PIPE, None for a
\* stream the child inherited
Communicate(piped, text) == IF piped THEN text ELSE None

AfterMergeEither ==
    IF test_file \/ nemo_model_file
    THEN IF ~symbols THEN "make_symbol_list" ELSE "farcompile"
    ELSE "make_arpa"
AfterMergeAlwaysBuild ==
    IF test_file /\ nemo_model_file THEN "make_symbol_list" ELSE "make_arpa"
\* main, after merge returned: the evaluation branch or the artifacts
AfterMerge ==
    IF test_file /\ nemo_model_file
    THEN IF ~symbols THEN "make_symbol_list" ELSE "farcompile"
    ELSE "make_arpa"

\* the symbol table path handed to test_perplexity
SymbolsPath == IF symbols THEN "user_syms" ELSE "syms"

\* the files of the pipeline that each stage's command reads (its sh_args)
Inputs(s) ==
    CASE s = "ngrammerge" -> {"mod_a", "mod_b"}
      [] s = "farcompile" -> {SymbolsPath}
      [] s = "perplexity" -> {"mod_c", "test_far"}
      [] s = "make_arpa" -> {"mod_c"}
      [] s = "make_kenlm" -> {"arpa_c"}
      [] OTHER -> {}

\* a command that is handed a path where no file is cannot exit 0
InputMissing(s) == \E p \in Inputs(s) : ~fs[p].exists

\* the exit codes a command may return in the current state
Exits(s) ==
    IF InputMissing(s) THEN {1}
    ELSE {rc \in ExitCodes : rc = 0 \/ fails < MaxFail}

Spent(s, rc) == IF rc # 0 /\ ~InputMissing(s) THEN fails + 1 ELSE fails

\* the files main is given that each stage's command (or, for
\* make_symbol_list and the tokenizer of farcompile, the model loader) reads
External(s) ==
    CASE s = "arpa2mod_a" -> {"arpa_a"}
      [] s = "arpa2mod_b" -> {"arpa_b"}
      [] s = "make_symbol_list" -> {"nemo_model_file"}
      [] s = "farcompile" -> {"test_file", "nemo_model_file"}
      [] OTHER -> {}

\* the stage that writes at a path
Writer(path) ==
    CASE path = "mod_a" -> "arpa2mod_a"
      [] path = "mod_b" -> "arpa2mod_b"
      [] path = "mod_c" -> "ngrammerge"
      [] path = "test_far" -> "farcompile"
      [] path = "arpa_c" -> "make_arpa"
      [] path = "ngram_kenlm" -> "make_kenlm"
      [] OTHER -> "make_symbol_list"

DeriveFirstVersion(s) ==
    UNION {fs[p].src : p \in Inputs(s)} \cup {<<i, 0>> : i \in External(s)}
\* what the output of a stage's command is computed from: the content, as
\* it is now, of every file the command reads
Derive(s) ==
    UNION {fs[p].src : p \in Inputs(s)}
        \cup {<<i, inputs[i]>> : i \in External(s)}

\* what an external command leaves at its output path: the complete file
\* when it exits 0; when it fails, either nothing new or a partial file
Produced(path, rc, partial) ==
    IF rc = 0 \/ partial
    THEN [fs EXCEPT ![path] = [exists |-> TRUE, ok |-> (rc = 0),
                               fresh |-> TRUE, src |-> Derive(Writer(path))]]
    ELSE fs

(***************************************************************************)
(* Initial state: nothing has run; only a user's symbol table may exist.   *)
(***************************************************************************)
InitPipeline ==
    /\ pc = "idle"
    /\ run = 0
    /\ force = FALSE
    /\ test_file = FALSE
    /\ nemo_model_file = FALSE
    /\ symbols = FALSE
    /\ \E u \in {Absent, UserTable} :
          fs = [p \in Paths |-> IF p = "user_syms" THEN u ELSE Absent]
    /\ log = <<>>
    /\ ranOk = {}
    /\ fails = 0
    /\ emitted = Quiet
    /\ report = NoReport
    /\ inputs = [i \in InputNames |-> 0]
    /\ nonzero = FALSE

\* the files as a new run finds them: none is of this run
Aged == [p \in Paths |-> [fs[p] EXCEPT !.fresh = FALSE]]

\* python3 ngram_merge.py ...: main is entered with the parsed arguments
StartRun ==
    /\ pc \in {"idle", "done", "aborted"}
    /\ run < MaxRuns
    /\ run' = run + 1
    /\ force' \in BOOLEAN
    /\ test_file' \in BOOLEAN
    /\ nemo_model_file' \in BOOLEAN
    /\ symbols' \in BOOLEAN
    /\ fs' = Aged
    /\ log' = <<>>
    /\ emitted' = Quiet
    /\ report' = NoReport
    /\ pc' = "arpa2mod_a"
    /\ UNCHANGED <<ranOk, fails, inputs, nonzero, offPipe>>

\* the number of times the input files have been rewritten so far
Edits ==
    inputs["arpa_a"] + inputs["arpa_b"] + inputs["test_file"]
        + inputs["nemo_model_file"]

\* between two runs, main having returned, somebody rewrites one of the
\* input files; followed only while no command has failed
EditInput ==
    /\ pc = "done"
    /\ ~nonzero
    /\ run < MaxRuns
    /\ Edits < MaxEdits
    /\ \E i \in InputNames : inputs' = [inputs EXCEPT ![i] = @ + 1]
    /\ pc' = "idle"
    /\ UNCHANGED <<run, force, test_file, nemo_model_file, symbols, fs,
                   log, ranOk, fails, emitted, report, nonzero, offPipe>>

\* a cache-gated stage whose command is started with subprocess.run
RunStage(s, next) ==
    /\ IF Skip(Out(s), force)
       THEN /\ log' = Append(log, Entry(s, FALSE, 0))
            /\ pc' = next
            /\ ranOk' = ranOk \cup {s}
            /\ UNCHANGED <<fs, fails, nonzero>>
       ELSE \E rc \in Exits(s), partial \in BOOLEAN :
            /\ rc = 0 => ~partial
            /\ fails' = Spent(s, rc)
            /\ nonzero' = (nonzero \/ rc # 0)
            /\ fs' = Produced(Out(s), rc, partial)
            /\ log' = Append(log, Entry(s, TRUE, rc))
            /\ pc' = AfterRun(rc, next)
            /\ ranOk' = IF rc = 0 THEN ranOk \cup {s} ELSE ranOk
    /\ UNCHANGED <<run, force, test_file, nemo_model_file, symbols, inputs,
                   emitted, report, offPipe>>

Arpa2modA ==
    /\ pc = "arpa2mod_a"
    /\ RunStage("arpa2mod_a", "arpa2mod_b")

Arpa2modB ==
    /\ pc = "arpa2mod_b"
    /\ RunStage("arpa2mod_b", "ngrammerge")

Ngrammerge ==
    /\ pc = "ngrammerge"
    /\ RunStage("ngrammerge", AfterMerge)

\* make_symbol_list(nemo_model_file, symbols, force): the gate tests and the
\* table is written at the symbols path it is handed; the model is loaded
\* first, and a failed load raises before the file is opened
MakeSymbolList ==
    /\ pc = "make_symbol_list"
    /\ IF Skip(SymbolsPath, force)
       THEN /\ log' = Append(log, Entry("make_symbol_list", FALSE, 0))
            /\ pc' = "farcompile"
            /\ ranOk' = ranOk \cup {"make_symbol_list"}
            /\ UNCHANGED <<fs, fails, nonzero>>
       ELSE \E rc \in Exits("make_symbol_list") :
            /\ fails' = Spent("make_symbol_list", rc)
            /\ nonzero' = (nonzero \/ rc # 0)
            /\ fs' = Produced(SymbolsPath, rc, FALSE)
            /\ log' = Append(log, Entry("make_symbol_list", TRUE, rc))
            /\ pc' = IF rc = 0 THEN "farcompile" ELSE "aborted"
            /\ ranOk' = IF rc = 0 THEN ranOk \cup {"make_symbol_list"}
                        ELSE ranOk
    /\ UNCHANGED <<run, force, test_file, nemo_model_file, symbols, inputs,
                   emitted, report, offPipe>>

\* Popen(..., stdin=PIPE, stdout=sys.stdout, stderr=sys.stderr)
FarPiped == [stdout |-> FALSE, stderr |-> FALSE]

\* farcompile as main sees it: the shell creates test_far for the
\* redirection, the corpus is streamed, communicate() returns, the exit code
\* is asserted
Farcompile ==
    /\ pc = "farcompile"
    /\ IF Skip("test_far", force)
       THEN /\ log' = Append(log, Entry("farcompile", FALSE, 0))
            /\ pc' = "perplexity"
            /\ ranOk' = ranOk \cup {"farcompile"}
            /\ UNCHANGED <<fs, fails, nonzero, emitted, report>>
       ELSE \E rc \in Exits("farcompile"), o \in OutTexts, e \in ErrTexts :
            /\ fails' = Spent("farcompile", rc)
            /\ nonzero' = (nonzero \/ rc # 0)
            /\ fs' = Produced("test_far", rc, TRUE)
            /\ log' = Append(log, Entry("farcompile", TRUE, rc))
            /\ emitted' = [out |-> o, err |-> e]
            /\ pc' = AfterAssert(rc, "perplexity")
            /\ report' = IF pc' = "aborted"
                         THEN [stage |-> "farcompile",
                               cmd |-> Cmd("farcompile"),
                               stdout |-> Communicate(FarPiped.stdout, o),
                               stderr |-> Communicate(FarPiped.stderr, e)]
                         ELSE report
            /\ ranOk' = IF rc = 0 THEN ranOk \cup {"farcompile"}
                        ELSE ranOk
    /\ UNCHANGED <<run, force, test_file, nemo_model_file, symbols, inputs, offPipe>>

\* Popen(sh_args, text=True, stdout=PIPE, stderr=PIPE)
PplPiped == [stdout |-> TRUE, stderr |-> TRUE]

\* perplexity: no cache gate; the scorer is always started
Perplexity ==
    /\ pc = "perplexity"
    /\ \E rc \in Exits("perplexity"), o \in OutTexts, e \in ErrTexts :
            /\ fails' = Spent("perplexity", rc)
            /\ nonzero' = (nonzero \/ rc # 0)
            /\ log' = Append(log, Entry("perplexity", TRUE, rc))
            /\ emitted' = [out |-> o, err |-> e]
            /\ pc' = AfterAssert(rc, "make_arpa")
            /\ report' = IF pc' = "aborted"
                         THEN [stage |-> "perplexity",
                               cmd |-> Cmd("perplexity"),
                               stdout |-> Communicate(PplPiped.stdout, o),
                               stderr |-> Communicate(PplPiped.stderr, e)]
                         ELSE report
            /\ ranOk' = IF rc = 0 THEN ranOk \cup {"perplexity"}
                        ELSE ranOk
    /\ UNCHANGED <<run, force, test_file, nemo_model_file, symbols, inputs, fs,
                   offPipe>>

MakeArpa ==
    /\ pc = "make_arpa"
    /\ RunStage("make_arpa", "make_kenlm")

MakeKenlm ==
    /\ pc = "make_kenlm"
    /\ RunStage("make_kenlm", "done")

Next ==
    \/ StartRun
    \/ EditInput
    \/ Arpa2modA
    \/ Arpa2modB
    \/ Ngrammerge
    \/ MakeSymbolList
    \/ Farcompile
    \/ Perplexity
    \/ MakeArpa
    \/ MakeKenlm

\* no call of merge is under study
NoNames == margs = <<>> /\ mpaths = <<>>

\* no call of make_symbol_list is under study
NoSym ==
    /\ sym_pc = "off"
    /\ vocabulary = <<>>
    /\ sym_force = FALSE
    /\ sym_file = [exists |-> FALSE, data |-> <<>>]
    /\ sym_i = 0

\* no call of farcompile is under study
NoFar ==
    /\ far_pc = "off"
    /\ far_force = FALSE
    /\ far_file = FALSE
    /\ source = <<>>
    /\ far_n = 0
    /\ pipe = <<>>
    /\ stdin_closed = FALSE
    /\ child = "none"
    /\ received = <<>>
    /\ child_eof = FALSE
    /\ returncode = None

\* the output paths are not under study
NoLayout ==
    /\ lay_pc = "off"
    /\ lay_args = <<>>
    /\ written = {}

\* no call of perplexity is under study
NoPpl ==
    /\ ppl_pc = "off"
    /\ stdout = <<>>
    /\ perplexity_out = None

Init == InitPipeline /\ NoNames /\ NoSym /\ NoFar /\ NoLayout /\ NoPpl

Spec == Init /\ [][Next]_vars

(***************************************************************************)
(* merge: the name of the merged model.                                    *)
(***************************************************************************)
DigitChar(d) == <<"0", "1", "2", "3", "4", "5", "6", "7", "8", "9">>[d + 1]

RECURSIVE DigitsOf(_)
\* the decimal digits of a natural number, most significant first
DigitsOf(n) == IF n < 10 THEN <<n>> ELSE Append(DigitsOf(n \div 10), n % 10)

RECURSIVE Join(_)
Join(ds) == IF ds = <<>> THEN "" ELSE DigitChar(Head(ds)) \o Join(Tail(ds))

RECURSIVE Zeros(_)
Zeros(k) == IF k <= 0 THEN "" ELSE "0" \o Zeros(k - 1)

\* str(int): a non-negative integer in decimal
StrInt(n) == Join(DigitsOf(n))

\* A weight is the float nearest to the decimal m * 10^e (m without
\* trailing zero; zero is m = 0, e = 0).  str(float) prints the shortest
\* decimal that reads back as the float: positional when the decimal point
\* falls in -4 < decpt <= 16, else d[.ddd]e[+-]XX.
StrFloat(w) ==
    LET ds == DigitsOf(w.m)
        n == Len(ds)
        decpt == n + w.e
        x == decpt - 1
        ax == IF x < 0 THEN 0 - x ELSE x
    IN  IF w.m = 0 THEN "0.0"
        ELSE IF -4 < decpt /\ decpt <= 16
        THEN IF decpt <= 0 THEN "0." \o Zeros(0 - decpt) \o Join(ds)
             ELSE IF decpt >= n THEN Join(ds) \o Zeros(decpt - n) \o ".0"
             ELSE Join(SubSeq(ds, 1, decpt)) \o "." \o Join(SubSeq(ds, decpt + 1, n))
        ELSE DigitChar(Head(ds))
             \o (IF n > 1 THEN "." \o Join(Tail(ds)) ELSE "")
             \o "e" \o (IF x < 0 THEN "-" ELSE "+")
             \o (IF ax < 10 THEN "0" ELSE "") \o StrInt(ax)

\* os.path.join(out_path, name), name relative
PathJoin(dir, name) == dir \o "/" \o name

\* f"{os.path.split(arpa_a)[1]}-{alpha}-{os.path.split(arpa_b)[1]}-{beta}.arpa"
MergedNameNoAlpha(a, alpha, b, beta) ==
    a \o "-" \o b \o "-" \o StrFloat(beta) \o ".arpa"
MergedName(a, alpha, b, beta) ==
    a \o "-" \o StrFloat(alpha) \o "-" \o b \o "-" \o StrFloat(beta) \o ".arpa"

\* merge(...) returns (mod_c, arpa_c); ngrammerge returns arpa_c + ".mod"
MergePaths(out_path, t) ==
    LET arpa_c == PathJoin(out_path, MergedName(t.a, t.alpha, t.b, t.beta))
    IN  [arpa_c |-> arpa_c, mod_c |-> arpa_c \o ".mod"]

\* the weights and basenames the calls are drawn from
W(m, e) == [m |-> m, e |-> e]
Weights == {W(1, 0), W(2, 0), W(5, -1), W(15, -1), W(1, -5)}
Basenames == {"a", "a-1.0-b", "b-2.0-a"}
OutPath == "/out"
MergeArgs == [a : Basenames, alpha : Weights, b : Basenames, beta : Weights]
NoPaths == [arpa_c |-> None, mod_c |-> None]

\* the pipeline is not running
PipelineOff ==
    /\ InitPipeline
    /\ ~fs["user_syms"].exists

\* two calls of merge with any arguments
InitNames ==
    /\ PipelineOff
    /\ NoSym
    /\ NoFar
    /\ NoLayout
    /\ NoPpl
    /\ margs \in [1..2 -> MergeArgs]
    /\ mpaths = [k \in 1..2 |-> NoPaths]

\* one call of merge, as far as its return value goes
MergeCall(k) ==
    /\ mpaths[k] = NoPaths
    /\ mpaths' = [mpaths EXCEPT ![k] = MergePaths(OutPath, margs[k])]
    /\ UNCHANGED <<margs, offNames>>

NextNames == \E k \in 1..2 : MergeCall(k)

SpecNames == InitNames /\ [][NextNames]_vars

(***************************************************************************)
(* make_symbol_list: the symbol table file.  A file is the sequence of the *)
(* code points written to it.                                              *)
(***************************************************************************)
DEFAULT_TOKEN_OFFSET == 100
NewLine == 10
Space == 32
Zero == 48

RECURSIVE Codes(_)
\* the code points of the decimal digits ds
Codes(ds) == IF ds = <<>> THEN <<>> ELSE <<Zero + Head(ds)>> \o Codes(Tail(ds))

\* chr(idx + DEFAULT_TOKEN_OFFSET)
Chr(idx) == idx + DEFAULT_TOKEN_OFFSET

\* vocab = [chr(idx + DEFAULT_TOKEN_OFFSET) for idx in range(vocab_size)]
Vocab(vocab_size) == [k \in 1..vocab_size |-> Chr(k - 1)]

\* f.write(v + " " + str(i) + "\n")
SymLineFromOne(v, i) == <<v, Space>> \o Codes(DigitsOf(i + 1)) \o <<NewLine>>
SymLine(v, i) == <<v, Space>> \o Codes(DigitsOf(i)) \o <<NewLine>>

\* two tokenizers of every size, and a table left by an earlier tokenizer
Vocabularies ==
    UNION {{[k \in 1..n |-> k], [k \in 1..n |-> n + 1 - k]} : n \in 0..MaxVocab}
StaleTable == SymLine(Chr(0), 0) \o SymLine(Chr(1), 1)
NoFile == [exists |-> FALSE, data |-> <<>>]

InitSym ==
    /\ PipelineOff
    /\ NoNames
    /\ NoFar
    /\ NoLayout
    /\ NoPpl
    /\ sym_pc = "call"
    /\ vocabulary \in Vocabularies
    /\ sym_force \in BOOLEAN
    /\ sym_file \in {NoFile, [exists |-> TRUE, data |-> StaleTable]}
    /\ sym_i = 0

\* if os.path.isfile(symbols) and not force: ... else: restore the model
SymGate ==
    /\ sym_pc = "call"
    /\ sym_pc' = IF sym_file.exists /\ ~sym_force THEN "skipped" ELSE "loaded"
    /\ UNCHANGED <<vocabulary, sym_force, sym_file, sym_i, offSym>>

\* with open(symbols, "w", encoding="utf-8") as f: the file is truncated
SymOpen ==
    /\ sym_pc = "loaded"
    /\ sym_file' = [exists |-> TRUE, data |-> <<>>]
    /\ sym_i' = 0
    /\ sym_pc' = "writing"
    /\ UNCHANGED <<vocabulary, sym_force, offSym>>

\* for i, v in enumerate(vocab): f.write(...)
SymWrite ==
    /\ sym_pc = "writing"
    /\ sym_i < Len(vocabulary)
    /\ sym_file' = [sym_file EXCEPT !.data =
                      @ \o SymLine(Vocab(Len(vocabulary))[sym_i + 1], sym_i)]
    /\ sym_i' = sym_i + 1
    /\ UNCHANGED <<sym_pc, vocabulary, sym_force, offSym>>

\* the loop is over and the file is closed
SymClose ==
    /\ sym_pc = "writing"
    /\ sym_i = Len(vocabulary)
    /\ sym_pc' = "done"
    /\ UNCHANGED <<vocabulary, sym_force, sym_file, sym_i, offSym>>

NextSym == SymGate \/ SymOpen \/ SymWrite \/ SymClose

SpecSym == InitSym /\ [][NextSym]_vars

(***************************************************************************)
(* farcompile on its own: the orchestrator, the stdin pipe and the         *)
(* farcompilestrings subprocess.                                           *)
(***************************************************************************)
\* a raw line is a sequence of word ids; the corpora are the sequences of at
\* most MaxLines lines
RawLines == {<<1, 2>>, <<3>>}
Corpora == UNION {[1..n -> RawLines] : n \in 0..MaxLines}

\* the tokenized form of a raw line: one symbol of the table per token
Tokenized(line) == [k \in 1..Len(line) |-> Chr(line[k])]

InitFar ==
    /\ PipelineOff
    /\ NoNames
    /\ NoSym
    /\ NoLayout
    /\ NoPpl
    /\ far_pc = "call"
    /\ far_force \in BOOLEAN
    /\ far_file \in BOOLEAN
    /\ source \in Corpora
    /\ far_n = 0
    /\ pipe = <<>>
    /\ stdin_closed = FALSE
    /\ child = "none"
    /\ received = <<>>
    /\ child_eof = FALSE
    /\ returncode = None

\* if os.path.isfile(test_far) and not force: return
FarGate ==
    /\ far_pc = "call"
    /\ far_pc' = IF far_file /\ ~far_force THEN "skipped" ELSE "popen"
    /\ UNCHANGED <<far_force, far_file, source, far_n, pipe, stdin_closed,
                   child, received, child_eof, returncode, offFar>>

\* ps = subprocess.Popen(" ".join(sh_args), shell=True, stdin=PIPE, ...):
\* the shell opens test_far for the redirection and starts the builder
FarPopen ==
    /\ far_pc = "popen"
    /\ child' = "running"
    /\ far_file' = TRUE
    /\ far_pc' = "iter_files"
    /\ UNCHANGED <<far_force, source, far_n, pipe, stdin_closed, received,
                   child_eof, returncode, offFar>>

\* kenlm_utils.iter_files(dest_path=ps.stdin, ...): the next line of the
\* source is tokenized and written; the write waits while the pipe is full
\* and raises BrokenPipeError when the subprocess is gone
FarWriteLine ==
    /\ far_pc = "iter_files"
    /\ far_n < Len(source)
    /\ IF child = "exited"
       THEN /\ far_pc' = "raised"
            /\ UNCHANGED <<far_n, pipe>>
       ELSE /\ Len(pipe) < PipeCap
            /\ pipe' = Append(pipe, Tokenized(source[far_n + 1]))
            /\ far_n' = far_n + 1
            /\ UNCHANGED far_pc
    /\ UNCHANGED <<far_force, far_file, source, stdin_closed, child,
                   received, child_eof, returncode, offFar>>

\* ps.communicate() with stdin the only pipe: stdin is closed, then wait()
CommunicateLeavesOpen(closed) == closed
CommunicateCloses(closed) == TRUE

\* iter_files has returned; stdout, stderr = ps.communicate() closes stdin
FarCommunicate ==
    /\ far_pc = "iter_files"
    /\ far_n = Len(source)
    /\ stdin_closed' = CommunicateCloses(stdin_closed)
    /\ far_pc' = "wait"
    /\ UNCHANGED <<far_force, far_file, source, far_n, pipe, child, received,
                   child_eof, returncode, offFar>>

\* communicate() returns when the subprocess has exited;
\* exit_code = ps.returncode; assert exit_code == 0
FarWait ==
    /\ far_pc = "wait"
    /\ child = "exited"
    /\ far_pc' = AfterAssert(returncode, "returned")
    /\ UNCHANGED <<far_force, far_file, source, far_n, pipe, stdin_closed,
                   child, received, child_eof, returncode, offFar>>

\* the subprocess reads one line from its standard input
ChildRead ==
    /\ child = "running"
    /\ pipe # <<>>
    /\ received' = Append(received, Head(pipe))
    /\ pipe' = Tail(pipe)
    /\ UNCHANGED <<far_pc, far_force, far_file, source, far_n, stdin_closed,
                   child, child_eof, returncode, offFar>>

\* the subprocess reads end-of-input: the pipe is empty and closed
ChildEof ==
    /\ child = "running"
    /\ ~child_eof
    /\ pipe = <<>>
    /\ stdin_closed
    /\ child_eof' = TRUE
    /\ UNCHANGED <<far_pc, far_force, far_file, source, far_n, pipe,
                   stdin_closed, child, received, returncode, offFar>>

\* the subprocess exits: with any status once it has read end-of-input, or
\* with a failure before that (unreadable symbols, unknown token)
ChildExit ==
    /\ child = "running"
    /\ \E rc \in ExitCodes :
          /\ ~child_eof => rc # 0
          /\ returncode' = rc
    /\ child' = "exited"
    /\ UNCHANGED <<far_pc, far_force, far_file, source, far_n, pipe,
                   stdin_closed, received, child_eof, offFar>>

NextFar ==
    \/ FarGate
    \/ FarPopen
    \/ FarWriteLine
    \/ FarCommunicate
    \/ FarWait
    \/ ChildRead
    \/ ChildEof
    \/ ChildExit

SpecFar == InitFar /\ [][NextFar]_vars

\* the orchestrator's thread runs whenever it is not blocked
Orchestrator == FarGate \/ FarPopen \/ FarWriteLine \/ FarCommunicate \/ FarWait

\* a subprocess that is scheduled keeps reading what is in its pipe, sees
\* the end of its input once the pipe is empty and closed, and exits after
\* that; nothing makes it fail before
FairFar ==
    /\ WF_vars(Orchestrator)
    /\ WF_vars(ChildRead)
    /\ WF_vars(ChildEof)
    /\ WF_vars(child_eof /\ ChildExit)

SpecFarFair == InitFar /\ [][NextFar]_vars /\ FairFar

(***************************************************************************)
(* Where the files go: the path each stage is handed as its output, as     *)
(* main and its callees compute it.  A path is the sequence of its         *)
(* components.                                                             *)
(***************************************************************************)
\* path + ext
Suffixed(path, ext) == [path EXCEPT ![Len(path)] = @ \o ext]

\* os.path.split(path)[1]
SplitTail(path) == path[Len(path)]

\* os.path.join(dir, name), name a single component
JoinDir(dir, name) == Append(dir, name)

\* path lies somewhere below dir
Under(dir, path) ==
    /\ Len(path) > Len(dir)
    /\ SubSeq(path, 1, Len(dir)) = dir

\* mod_path = arpa_path + ".mod"
ModPath(arpa_path) == Suffixed(arpa_path, ".mod")

\* arpa_c of merge
ArpaCPath(t) ==
    JoinDir(t.out_path,
            MergedName(SplitTail(t.arpa_a), t.alpha, SplitTail(t.arpa_b), t.beta))

\* symbols = os.path.join(out_path, os.path.split(nemo_model_file)[1] + ".syms")
DerivedSymbols(t) == JoinDir(t.out_path, SplitTail(t.nemo_model_file) \o ".syms")

TestFarBesideText(tmp_path, test_txt) == Suffixed(test_txt, ".far")
\* test_far = os.path.join(tmp_path, os.path.split(test_txt)[1] + ".far")
TestFarPath(tmp_path, test_txt) == JoinDir(tmp_path, SplitTail(test_txt) \o ".far")

\* ngram_kenlm = ngram_arpa + ".kenlm"
KenlmPath(ngram_arpa) == Suffixed(ngram_arpa, ".kenlm")

\* the directories and arguments the runs are drawn from
LayDirs == {<<"out">>, <<"data">>, <<"out", "lm">>}
LayArgs ==
    [arpa_a : {JoinDir(d, "a") : d \in LayDirs},
     alpha : {W(1, 0)},
     arpa_b : {JoinDir(d, "b") : d \in LayDirs},
     beta : {W(5, -1)},
     out_path : {<<"out">>, <<"data">>},
     test_file : {None, <<"data", "t.txt">>},
     nemo_model_file : {None, <<"models", "m.nemo">>},
     symbols : {None, <<"data", "v.syms">>}]

InitLayout ==
    /\ PipelineOff
    /\ NoNames
    /\ NoSym
    /\ NoFar
    /\ NoPpl
    /\ lay_pc = "arpa2mod_a"
    /\ lay_args \in LayArgs
    /\ written = {}

\* a gated stage: on a hit nothing is written, otherwise the command writes
\* at the path
LayStage(s, path, next) ==
    /\ \E hit \in BOOLEAN :
          written' = IF hit THEN written
                     ELSE written \cup {[stage |-> s, path |-> path]}
    /\ lay_pc' = next
    /\ UNCHANGED <<lay_args, offLay>>

LayArpa2modA ==
    /\ lay_pc = "arpa2mod_a"
    /\ LayStage("arpa2mod_a", ModPath(lay_args.arpa_a), "arpa2mod_b")

LayArpa2modB ==
    /\ lay_pc = "arpa2mod_b"
    /\ LayStage("arpa2mod_b", ModPath(lay_args.arpa_b), "ngrammerge")

\* mod_c = arpa_c + ".mod"; then main's test of test_file and nemo_model_file
LayNgrammerge ==
    /\ lay_pc = "ngrammerge"
    /\ LayStage("ngrammerge", Suffixed(ArpaCPath(lay_args), ".mod"),
                IF lay_args.test_file # None /\ lay_args.nemo_model_file # None
                THEN IF lay_args.symbols = None THEN "make_symbol_list"
                     ELSE "farcompile"
                ELSE "make_arpa")

LayMakeSymbolList ==
    /\ lay_pc = "make_symbol_list"
    /\ LayStage("make_symbol_list", DerivedSymbols(lay_args), "farcompile")

\* test_perplexity(mod_c, symbols, test_file, nemo_model_file, out_path,
\* force): farcompile writes test_far; perplexity writes no file
LayFarcompile ==
    /\ lay_pc = "farcompile"
    /\ LayStage("farcompile",
                TestFarPath(lay_args.out_path, lay_args.test_file), "make_arpa")

LayMakeArpa ==
    /\ lay_pc = "make_arpa"
    /\ LayStage("make_arpa", ArpaCPath(lay_args), "make_kenlm")

LayMakeKenlm ==
    /\ lay_pc = "make_kenlm"
    /\ LayStage("make_kenlm", KenlmPath(ArpaCPath(lay_args)), "done")

NextLayout ==
    \/ LayArpa2modA
    \/ LayArpa2modB
    \/ LayNgrammerge
    \/ LayMakeSymbolList
    \/ LayFarcompile
    \/ LayMakeArpa
    \/ LayMakeKenlm

SpecLayout == InitLayout /\ [][NextLayout]_vars

(***************************************************************************)
(* perplexity: the scorer's stdout, a string held as the sequence of its   *)
(* code points, and the tail of it that is returned.                       *)
(***************************************************************************)
\* -6 and -1 of stdout.split("\n")[-6:-1]
TailFrom == -6
TailTo == -1

RECURSIVE StrSplit(_, _)
\* str.split("\n"): the pieces between newlines, one more than there are
\* newlines; cur is the piece being read
StrSplit(data, cur) ==
    IF data = <<>> THEN <<cur>>
    ELSE IF Head(data) = NewLine THEN <<cur>> \o StrSplit(Tail(data), <<>>)
    ELSE StrSplit(Tail(data), Append(cur, Head(data)))

\* a slice bound as Python reads it for a list of length n
SliceBound(i, n) ==
    IF i < 0 THEN (IF n + i < 0 THEN 0 ELSE n + i)
    ELSE IF i > n THEN n ELSE i

\* seq[lo:hi]
Slice(seq, lo, hi) ==
    SubSeq(seq, SliceBound(lo, Len(seq)) + 1, SliceBound(hi, Len(seq)))

RECURSIVE StrJoin(_)
\* "\n".join(pieces)
StrJoin(pieces) ==
    IF pieces = <<>> THEN <<>>
    ELSE IF Len(pieces) = 1 THEN pieces[1]
    ELSE pieces[1] \o <<NewLine>> \o StrJoin(Tail(pieces))

\* perplexity_out = "\n".join(stdout.split("\n")[-6:-1])
TailBlock(out) == StrJoin(Slice(StrSplit(out, <<>>), TailFrom, TailTo))

\* the characters of the scorer's output: two letters and the newline
OutChars == {NewLine, 120, 121}

RECURSIVE Texts(_)
\* the strings of at most n characters
Texts(n) ==
    IF n = 0 THEN {<<>>}
    ELSE LET shorter == Texts(n - 1)
         IN  shorter \cup {Append(t, c) : t \in shorter, c \in OutChars}

InitPpl ==
    /\ PipelineOff
    /\ NoNames
    /\ NoSym
    /\ NoFar
    /\ NoLayout
    /\ ppl_pc = "call"
    /\ stdout \in Texts(MaxOut)
    /\ perplexity_out = None

\* Popen, communicate(), wait(), assert exit_code == 0
PplRun ==
    /\ ppl_pc = "call"
    /\ \E rc \in ExitCodes : ppl_pc' = AfterAssert(rc, "asserted")
    /\ UNCHANGED <<stdout, perplexity_out, offPpl>>

\* perplexity_out = ...; return perplexity_out
PplReturn ==
    /\ ppl_pc = "asserted"
    /\ perplexity_out' = TailBlock(stdout)
    /\ ppl_pc' = "returned"
    /\ UNCHANGED <<stdout, offPpl>>

NextPpl == PplRun \/ PplReturn

SpecPpl == InitPpl /\ [][NextPpl]_vars

(***************************************************************************)
(* Properties of the pipeline.                                             *)
(***************************************************************************)
LastEntry(l) == l[Len(l)]

Failed(i) == log[i].launched /\ log[i].rc # 0

\* C1: every file-producing stage skips (launches nothing, writes nothing)
\* exactly when its own output path is a file and force is false, and
\* launches its command in every other case.
CacheGateDecides ==
    [][\A s \in FileStages :
          (pc = s /\ pc' # s) =>
             /\ Len(log') = Len(log) + 1
             /\ LastEntry(log').stage = s
             /\ (~LastEntry(log').launched) <=> (fs[Out(s)].exists /\ ~force)
             /\ (~LastEntry(log').launched) => fs' = fs]_vars

C1_Witness ==
    /\ pc = "done"
    /\ ~force
    /\ \E i, j \in 1..Len(log) : log[i].launched /\ ~log[j].launched

\* C2 as stated: any stage, the scorer included, that succeeded before and
\* runs again with force=false launches nothing and leaves the files alone.
IdempotentAnyStage ==
    [][\A s \in Stages :
          (pc = s /\ pc' # s /\ ~force /\ s \in ranOk) =>
             /\ fs' = fs
             /\ ~LastEntry(log').launched]_vars

\* C2 amended: a file-producing stage that succeeded before and runs again
\* with force=false, its output file still in place, launches nothing and
\* leaves every file unchanged; the scorer has no cache gate and is launched
\* whenever it is reached.
IdempotentGatedStage ==
    [][/\ \A s \in FileStages :
            (pc = s /\ pc' # s /\ ~force /\ s \in ranOk
                /\ fs[Out(s)].exists) =>
               /\ fs' = fs
               /\ ~LastEntry(log').launched
       /\ (pc = "perplexity" /\ pc' # pc) =>
               /\ LastEntry(log').stage = "perplexity"
               /\ LastEntry(log').launched]_vars

C2_Witness ==
    /\ run = 2
    /\ ~force
    /\ pc = "done"
    /\ "perplexity" \in ranOk
    /\ \E i, j \in 1..Len(log) :
          /\ log[i].stage = "farcompile" /\ ~log[i].launched
          /\ log[j].stage = "perplexity" /\ log[j].launched

\* the stages whose command is started with subprocess.run
RunStages == {"arpa2mod_a", "arpa2mod_b", "ngrammerge", "make_arpa",
              "make_kenlm"}

\* C3: a non-zero exit of ngramread, ngrammerge, ngramprint or the KenLM
\* builder ends the run there: no later command is launched and the run
\* does not reach done.
RunFailureIsFatal ==
    \A i \in 1..Len(log) :
        (log[i].stage \in RunStages /\ Failed(i)) =>
            /\ pc # "done"
            /\ \A j \in 1..Len(log) : j > i => ~log[j].launched

\* C4: a failed farcompile or perplexity aborts the run with a report that
\* holds the command and what the subprocess printed on stdout and stderr,
\* and no scorer is launched after a failed compile.
FailureReportCarriesOutput ==
    \A i \in 1..Len(log) :
        (log[i].stage \in {"farcompile", "perplexity"} /\ Failed(i)) =>
            /\ i = Len(log)
            /\ pc = "aborted"
            /\ report.stage = log[i].stage
            /\ report.cmd = Cmd(log[i].stage)
            /\ report.stdout = emitted.out
            /\ report.stderr = emitted.err

MergeSucceeded ==
    \A s \in {"arpa2mod_a", "arpa2mod_b", "ngrammerge"} :
        \E i \in 1..Len(log) : log[i].stage = s /\ log[i].rc = 0

\* C5: a run whose merging succeeded ends done, having gone through
\* make_arpa then make_kenlm, whether or not the evaluation failed.
EvaluationFailureDoesNotBlock ==
    (pc \in {"done", "aborted"} /\ MergeSucceeded) =>
        /\ pc = "done"
        /\ \E i, j \in 1..Len(log) :
              i < j /\ log[i].stage = "make_arpa" /\ log[j].stage = "make_kenlm"

\* C6: after a merge command that exited non-zero there is no file at the
\* merged binary path.
FailedMergeLeavesNoFile ==
    \A i \in 1..Len(log) :
        (log[i].stage = "ngrammerge" /\ Failed(i)) => ~fs["mod_c"].exists

\* C7: for fixed models A and B and a fixed output directory, two calls of
\* merge with different weight pairs return different arpa_c and different
\* mod_c.
DistinctWeightsDistinctPaths ==
    (/\ mpaths[1] # NoPaths /\ mpaths[2] # NoPaths
     /\ margs[1].a = margs[2].a /\ margs[1].b = margs[2].b
     /\ <<margs[1].alpha, margs[1].beta>> # <<margs[2].alpha, margs[2].beta>>)
    => /\ mpaths[1].arpa_c # mpaths[2].arpa_c
       /\ mpaths[1].mod_c # mpaths[2].mod_c

C7_Witness ==
    /\ margs[1].a = "a" /\ margs[1].b = "a-1.0-b"
    /\ margs[2].a = "a" /\ margs[2].b = "a-1.0-b"
    /\ margs[1].alpha = W(1, 0) /\ margs[1].beta = W(1, 0)
    /\ margs[2].alpha = W(2, 0) /\ margs[2].beta = W(1, 0)
    /\ mpaths[1].arpa_c = "/out/a-1.0-a-1.0-b-1.0.arpa"
    /\ mpaths[2].mod_c = "/out/a-2.0-a-1.0-b-1.0.arpa.mod"

\* C8: two calls of merge whose (basename of A, alpha, basename of B, beta)
\* differ return different file names.
NameIsInjective ==
    (/\ mpaths[1] # NoPaths /\ mpaths[2] # NoPaths
     /\ margs[1] # margs[2])
    => mpaths[1].arpa_c # mpaths[2].arpa_c

RECURSIVE SplitLines(_, _)
\* the lines of a file as a reader sees them: each run of code points up
\* to a newline, and what follows the last newline, if anything
SplitLines(data, cur) ==
    IF data = <<>> THEN (IF cur = <<>> THEN <<>> ELSE <<cur>>)
    ELSE IF Head(data) = NewLine THEN <<cur>> \o SplitLines(Tail(data), <<>>)
    ELSE SplitLines(Tail(data), Append(cur, Head(data)))

RECURSIVE ParseInt(_, _)
\* int(text) of a run of decimal digits; -1 when it is no such run
ParseInt(cs, acc) ==
    IF cs = <<>> THEN acc
    ELSE IF Head(cs) < Zero \/ Head(cs) > Zero + 9 THEN -1
    ELSE ParseInt(Tail(cs), 10 * acc + (Head(cs) - Zero))

\* C9: the table make_symbol_list has written for a vocabulary of size V has
\* exactly V lines; line i (from 0) is the symbol chr(i + offset), a space
\* and the id i; the symbols are pairwise distinct; nothing of the
\* vocabulary but its size shows in the file.
SymbolTableAligned ==
    sym_pc = "done" =>
        LET V == Len(vocabulary)
            ls == SplitLines(sym_file.data, <<>>)
        IN  /\ Len(ls) = V
            /\ \A k \in 1..Len(ls) :
                  /\ Len(ls[k]) >= 3
                  /\ ls[k][1] = (k - 1) + DEFAULT_TOKEN_OFFSET
                  /\ ls[k][2] = Space
                  /\ ParseInt(SubSeq(ls[k], 3, Len(ls[k])), 0) = k - 1
                  /\ Len(ls[k]) = 2 + (IF k - 1 < 10 THEN 1 ELSE 2)
            /\ \A j, k \in 1..Len(ls) : j # k => ls[j][1] # ls[k][1]

C9_Witness ==
    /\ sym_pc = "done"
    /\ Len(vocabulary) = 11
    /\ vocabulary[1] = 11
    /\ sym_force
    /\ SubSeq(sym_file.data, Len(sym_file.data) - 4, Len(sym_file.data))
         = <<110, Space, Zero + 1, Zero, NewLine>>

\* the lines of the source written so far, tokenized
Written(n) == [k \in 1..n |-> Tokenized(source[k])]

\* C10: on a cache miss the subprocess is started before any line is
\* written; the lines reach it one per source line in source order; stdin
\* is closed only when the whole source has been written; the orchestrator
\* waits only after the close; so at end-of-input the subprocess has read
\* exactly the lines of the source, in order.
StreamedInOrder ==
    /\ far_n > 0 => child # "none"
    /\ child = "none" => (received = <<>> /\ pipe = <<>>)
    /\ child = "running" => received \o pipe = Written(far_n)
    /\ Len(received) <= far_n
    /\ received = SubSeq(Written(far_n), 1, Len(received))
    /\ stdin_closed => far_n = Len(source)
    /\ far_pc \in {"wait", "returned", "aborted"} => stdin_closed
    /\ child_eof => (received = Written(Len(source)) /\ Len(received) = Len(source))
    /\ far_pc = "skipped" => (child = "none" /\ far_n = 0)

C10_Witness ==
    /\ far_pc = "returned"
    /\ child_eof
    /\ returncode = 0
    /\ source = <<<<1, 2>>, <<3>>, <<1, 2>>>>
    /\ received = <<<<101, 102>>, <<103>>, <<101, 102>>>>

\* the place of each stage in main's order of calls
Rank(s) ==
    CASE s = "arpa2mod_a" -> 1
      [] s = "arpa2mod_b" -> 2
      [] s = "ngrammerge" -> 3
      [] s = "make_symbol_list" -> 4
      [] s = "farcompile" -> 5
      [] s = "perplexity" -> 6
      [] s = "make_arpa" -> 7
      [] s = "make_kenlm" -> 8

\* C13: within one run the stages are entered in dependency order, each
\* after the previous command has exited: conversion of A, conversion of B,
\* merge (third, after both conversions), then the evaluation stages if any,
\* then make_arpa, then make_kenlm, then done; no stage is entered twice and
\* nothing is launched after done.
LaunchedInDependencyOrder ==
    [][/\ \A i, j \in 1..Len(log') :
             i < j => Rank(log'[i].stage) < Rank(log'[j].stage)
       /\ \A i \in 1..Len(log') :
             /\ log'[i].rc \in ExitCodes
             /\ log'[i].stage = "ngrammerge" =>
                   /\ i = 3
                   /\ log'[1].stage = "arpa2mod_a"
                   /\ log'[2].stage = "arpa2mod_b"
             /\ log'[i].stage = "make_kenlm" =>
                   (i > 1 /\ log'[i - 1].stage = "make_arpa")
       /\ pc' = "done" => LastEntry(log').stage = "make_kenlm"
       /\ (pc = "done" /\ run' = run) => log' = log]_vars

C13_Witness ==
    /\ pc = "done"
    /\ Len(log) = 8
    /\ \A i \in 1..8 : log[i].launched /\ log[i].rc = 0 /\ Rank(log[i].stage) = i

EvalStages == {"make_symbol_list", "farcompile", "perplexity"}

\* C14: the evaluation stages are entered exactly when both the test corpus
\* and the tokenizer reference were supplied; when either is missing none of
\* make_symbol_list, farcompile, perplexity runs, neither the symbol table
\* nor the compiled corpus is written, and the stage after the merge is
\* make_arpa.
EvaluationIffBothSupplied ==
    /\ (\E i \in 1..Len(log) : log[i].stage \in EvalStages)
          => (test_file /\ nemo_model_file)
    /\ (Len(log) >= 4 /\ test_file /\ nemo_model_file)
          => log[4].stage \in EvalStages
    /\ (Len(log) >= 4 /\ ~(test_file /\ nemo_model_file))
          => log[4].stage = "make_arpa"
    /\ ~(test_file /\ nemo_model_file)
          => (~fs["syms"].fresh /\ ~fs["test_far"].fresh
              /\ fs["user_syms"] = Aged["user_syms"])

C14_Witness ==
    /\ pc = "done"
    /\ run = 2
    /\ test_file /\ ~nemo_model_file
    /\ Len(log) = 5
    /\ fs["test_far"].exists

\* C15: whenever the compiler has been launched, a file is at the symbol
\* table path it was handed, be the path derived or supplied by the user.
SymbolTableBeforeCompile ==
    \A i \in 1..Len(log) :
        (log[i].stage = "farcompile" /\ log[i].launched)
            => fs[SymbolsPath].exists

\* C18: every file a stage reused on a skip is the complete output of a
\* command that exited 0; what a failed command left behind is not reused.
ReusedFileIsComplete ==
    \A i \in 1..Len(log) :
        (log[i].stage \in FileStages /\ ~log[i].launched)
            => fs[Out(log[i].stage)].ok

\* the stage of the pipeline that writes a path, if any
Producer(p) == {s \in FileStages : Out(s) = p}

\* C19: at the end of a run with force=true in which every command exited
\* 0, every stage entered has launched its command, after the stages that
\* write its inputs, and every artifact of the run (mod_a, mod_b, mod_c,
\* arpa_c, the KenLM model, and with the evaluation the compiled corpus and
\* the derived symbol table) was written in this run.
ForceRegeneratesAll ==
    (pc = "done" /\ force /\ \A i \in 1..Len(log) : log[i].rc = 0) =>
        /\ \A i \in 1..Len(log) :
              /\ log[i].launched
              /\ log[i].stage \in FileStages =>
                    (fs[Out(log[i].stage)].fresh /\ fs[Out(log[i].stage)].ok)
              /\ \A p \in Inputs(log[i].stage) : \A s \in Producer(p) :
                    \E j \in 1..(i - 1) : log[j].stage = s
        /\ \A p \in {"mod_a", "mod_b", "mod_c", "arpa_c", "ngram_kenlm"} :
              fs[p].fresh
        /\ (test_file /\ nemo_model_file) => fs["test_far"].fresh
        /\ (test_file /\ nemo_model_file /\ ~symbols) => fs["syms"].fresh

C19_Witness ==
    /\ pc = "done"
    /\ run = 2
    /\ force
    /\ test_file /\ nemo_model_file /\ ~symbols
    /\ \A i \in 1..Len(log) : log[i].rc = 0
    /\ \A p \in Paths \ {"user_syms"} : fs[p].fresh

AllWritesUnderOutPath ==
    \A w \in written : Under(lay_args.out_path, w.path)

\* C11 amended: the merged binary, the derived symbol table, the compiled
\* corpus, the merged ARPA and the KenLM model are written under out_path;
\* the binary form of each input is written beside its ARPA file, at the
\* ARPA path with ".mod" appended, wherever that is.
WritesUnderOutPathOrBesideInput ==
    \A w \in written :
        /\ w.stage = "arpa2mod_a" =>
              (/\ SubSeq(w.path, 1, Len(w.path) - 1)
                     = SubSeq(lay_args.arpa_a, 1, Len(lay_args.arpa_a) - 1)
               /\ SplitTail(w.path) = SplitTail(lay_args.arpa_a) \o ".mod")
        /\ w.stage = "arpa2mod_b" =>
              (/\ SubSeq(w.path, 1, Len(w.path) - 1)
                     = SubSeq(lay_args.arpa_b, 1, Len(lay_args.arpa_b) - 1)
               /\ SplitTail(w.path) = SplitTail(lay_args.arpa_b) \o ".mod")
        /\ w.stage \notin {"arpa2mod_a", "arpa2mod_b"} =>
              Under(lay_args.out_path, w.path)

C11_Witness ==
    /\ lay_pc = "done"
    /\ Cardinality(written) = 7
    /\ lay_args.out_path = <<"out">>
    /\ lay_args.arpa_a = <<"data", "a">>
    /\ [stage |-> "arpa2mod_a", path |-> <<"data", "a.mod">>] \in written
    /\ [stage |-> "farcompile", path |-> <<"out", "t.txt.far">>] \in written
    /\ [stage |-> "make_kenlm", path |-> <<"out", "a-1.0-b-0.5.arpa.kenlm">>]
          \in written

\* C17: perplexity returns the last lines the scorer printed: a run of at
\* most five consecutive output lines in their order, ending with the last
\* line printed, and the last five when there are five or more, whether or
\* not the output ends with a newline.
ReturnsTrailingLines ==
    ppl_pc = "returned" =>
        LET ls == SplitLines(stdout, <<>>)
            n == Len(ls)
        IN  \E k \in 0..5 :
               /\ k <= n
               /\ n >= 5 => k = 5
               /\ n > 0 => k > 0
               /\ perplexity_out = StrJoin(SubSeq(ls, n - k + 1, n))

\* C16: farcompile does not hang: a write that waits on a full pipe goes on
\* (or fails because the subprocess is gone), and every call ends: skipped,
\* or raised out of the write loop by a dead subprocess, or, with stdin
\* closed, back from waiting on the subprocess.
HandoffNeverHangs ==
    /\ [](/\ far_pc = "iter_files"
          /\ far_n < Len(source)
          /\ Len(pipe) >= PipeCap
          => <>(Len(pipe) < PipeCap \/ child = "exited"))
    /\ <>(\/ far_pc \in {"skipped", "raised"}
          \/ far_pc \in {"returned", "aborted"} /\ stdin_closed)

C16_Witness ==
    /\ far_pc = "iter_files"
    /\ child = "running"
    /\ Len(source) = MaxLines
    /\ far_n = PipeCap
    /\ Len(pipe) = PipeCap
    /\ received = <<>>

\* no input that went into the file at p has been rewritten since
UpToDate(p) ==
    \A e \in fs[p].src : e[1] \in InputNames => e[2] = inputs[e[1]]

\* C12 as stated: when no command has ever exited non-zero, every output of
\* the stages of a finished run, reused ones included, is what its stage
\* gives on the present content of the files it reads.
OutputsMatchCurrentInputs ==
    (pc = "done" /\ ~nonzero) =>
        \A i \in 1..Len(log) :
            log[i].stage \in FileStages =>
                fs[Out(log[i].stage)].src = Derive(log[i].stage)

\* C12 amended: when no command has ever exited non-zero, every output a
\* finished run has regenerated is what its stage gives on the present
\* content of the files it reads, and after a run with force=true that is
\* every output of the run and none goes back to an older version of an
\* input; a reused file is kept as it was written.
RegeneratedOutputsMatchInputs ==
    (pc = "done" /\ ~nonzero) =>
        \A i \in 1..Len(log) :
            log[i].stage \in FileStages =>
                /\ log[i].launched =>
                      fs[Out(log[i].stage)].src = Derive(log[i].stage)
                /\ force =>
                      /\ log[i].launched
                      /\ UpToDate(Out(log[i].stage))
                /\ ~log[i].launched =>
                      (~fs[Out(log[i].stage)].fresh /\ ~force)

C12_Witness ==
    /\ pc = "done"
    /\ ~nonzero
    /\ run = 2
    /\ ~force
    /\ inputs["arpa_a"] = 1
    /\ <<"arpa_a", 0>> \in fs["mod_a"].src
    /\ \E i, j \in 1..Len(log) :
          /\ log[i].stage = "arpa2mod_a" /\ ~log[i].launched
          /\ log[j].stage = "farcompile" /\ log[j].launched
          /\ fs["test_far"].src = Derive("farcompile")

====
